---- MODULE Spec2Model ----
(***************************************************************************)
(* Model of the Climate-Crop dashboards:                                   *)
(*   No_Name.py                    NASA POWER rice dashboard (Policy B)    *)
(*   Most_Definitly_Not_My_Crop.py Open-Meteo rice dashboard (Policy A,    *)
(*                                 30 day linear temperature projection)   *)
(*   Not_My_App.py                 Open-Meteo crop impact dashboard        *)
(* Python floats are modelled as exact rationals <<num, den>>, den > 0,    *)
(* in lowest terms; None is the empty tuple.                               *)
(***************************************************************************)
EXTENDS Integers, Sequences, FiniteSets, TLC

VARIABLES
    call,       \* scoring function applied last ("none" before any call)
    args,       \* its argument(s)
    scores,     \* its per-parameter scores (locals at return)
    ret,        \* its return value
    script,     \* dashboard script being run
    pc,         \* position of main() in the script
    response,   \* what the provider answered
    df,         \* DataFrame built from the payload (sequence of rows)
    filtered_df,\* rows inside the selected date range
    messages,   \* st.error / st.warning messages shown so far
    out         \* what main() has computed and rendered so far

vars == <<call, args, scores, ret, script, pc, response, df, filtered_df,
          messages, out>>

(***************************************************************************)
(* Exact rational arithmetic standing for Python float arithmetic.         *)
(***************************************************************************)
None == <<>>

Abs(n) == IF n < 0 THEN -n ELSE n

RECURSIVE Gcd(_, _)
Gcd(a, b) == IF b = 0 THEN a ELSE Gcd(b, a % b)

Norm(n, d) ==
    LET s == IF d < 0 THEN -1 ELSE 1
        g == Gcd(Abs(n), Abs(d))
    IN  <<(s * n) \div g, (s * d) \div g>>

R(n) == <<n, 1>>
Rat(n, d) == Norm(n, d)

RAdd(a, b) == Norm(a[1] * b[2] + b[1] * a[2], a[2] * b[2])
RSub(a, b) == Norm(a[1] * b[2] - b[1] * a[2], a[2] * b[2])
RMul(a, b) == Norm(a[1] * b[1], a[2] * b[2])
RDiv(a, b) == Norm(a[1] * b[2], a[2] * b[1])
RLt(a, b)  == a[1] * b[2] < b[1] * a[2]
RLe(a, b)  == a[1] * b[2] <= b[1] * a[2]
RAbs(a)    == <<Abs(a[1]), a[2]>>
\* Python max(a, b): b only when b > a
PyMax(a, b) == IF RLt(a, b) THEN b ELSE a

(***************************************************************************)
(* Policy A: analyze_rice_crop_health(temperature, rainfall)               *)
(***************************************************************************)
\* mutant: the max(0, ...) clamp forgotten
temp_score_unclamped(temperature) ==
    RSub(R(100), RMul(RAbs(RSub(temperature, R(25))), R(3)))

temp_score(temperature) ==
    PyMax(R(0), RSub(R(100), RMul(RAbs(RSub(temperature, R(25))), R(3))))

rain_score(rainfall) ==
    PyMax(R(0), RSub(R(100), RMul(RAbs(RSub(rainfall, R(125))), Rat(8, 10))))

analyze_rice_crop_health(temperature, rainfall) ==
    RAdd(RMul(temp_score(temperature), Rat(6, 10)),
         RMul(rain_score(rainfall), Rat(4, 10)))

(***************************************************************************)
(* Policy B: calculate_rice_crop_health_score(row)                         *)
(***************************************************************************)
Params == {"temperature", "humidity", "precipitation", "solar_radiation"}

conditions ==
    [temperature     |-> [min |-> R(20),  max |-> R(35),  ideal |-> R(25)],
     humidity        |-> [min |-> R(60),  max |-> R(80),  ideal |-> R(70)],
     precipitation   |-> [min |-> R(100), max |-> R(200), ideal |-> R(150)],
     solar_radiation |-> [min |-> R(4),   max |-> R(6),   ideal |-> R(5)]]

\* An exception raised inside the try block (comparing None with a number)
TypeError == <<"TypeError">>

RMin(a, b) == IF RLt(b, a) THEN b ELSE a

\* mutant: max_distance taken as the smaller of the two distances to the band edges
calculate_parameter_score_min_distance(value, param_conditions) ==
    IF value = None THEN R(0)
    ELSE IF RLt(value, param_conditions.min) \/ RLt(param_conditions.max, value)
    THEN PyMax(R(0), RSub(R(100),
               RMul(RAbs(RSub(value, param_conditions.ideal)), R(5))))
    ELSE LET distance_from_ideal == RAbs(RSub(value, param_conditions.ideal))
             max_distance ==
                 RMin(RAbs(RSub(param_conditions.min, param_conditions.ideal)),
                      RAbs(RSub(param_conditions.max, param_conditions.ideal)))
             q == RDiv(distance_from_ideal, max_distance)
             score == RMul(R(100), RSub(R(1), RMul(q, q)))
         IN  PyMax(R(0), score)

\* mutant: the "value is None" guard forgotten, so None < min raises
calculate_parameter_score_unguarded(value, param_conditions) ==
    IF value = None THEN TypeError
    ELSE IF RLt(value, param_conditions.min) \/ RLt(param_conditions.max, value)
    THEN PyMax(R(0), RSub(R(100),
               RMul(RAbs(RSub(value, param_conditions.ideal)), R(5))))
    ELSE LET distance_from_ideal == RAbs(RSub(value, param_conditions.ideal))
             max_distance ==
                 PyMax(RAbs(RSub(param_conditions.min, param_conditions.ideal)),
                       RAbs(RSub(param_conditions.max, param_conditions.ideal)))
             q == RDiv(distance_from_ideal, max_distance)
             score == RMul(R(100), RSub(R(1), RMul(q, q)))
         IN  PyMax(R(0), score)

calculate_parameter_score(value, param_conditions) ==
    IF value = None THEN R(0)
    ELSE IF RLt(value, param_conditions.min) \/ RLt(param_conditions.max, value)
    THEN PyMax(R(0), RSub(R(100),
               RMul(RAbs(RSub(value, param_conditions.ideal)), R(5))))
    ELSE LET distance_from_ideal == RAbs(RSub(value, param_conditions.ideal))
             max_distance ==
                 PyMax(RAbs(RSub(param_conditions.min, param_conditions.ideal)),
                       RAbs(RSub(param_conditions.max, param_conditions.ideal)))
             q == RDiv(distance_from_ideal, max_distance)
             score == RMul(R(100), RSub(R(1), RMul(q, q)))
         IN  PyMax(R(0), score)

parameter_scores(row) ==
    [p \in Params |-> calculate_parameter_score(row[p], conditions[p])]

\* mutant: a weight table that does not sum to 1.0
weights_unnormalised ==
    [temperature     |-> Rat(35, 100),
     precipitation   |-> Rat(25, 100),
     humidity        |-> Rat(2, 10),
     solar_radiation |-> Rat(15, 100)]

weights ==
    [temperature     |-> Rat(35, 100),
     precipitation   |-> Rat(3, 10),
     humidity        |-> Rat(2, 10),
     solar_radiation |-> Rat(15, 100)]

weighted_sum(s) ==
    RAdd(RAdd(RAdd(RMul(s.temperature, weights.temperature),
                   RMul(s.precipitation, weights.precipitation)),
              RMul(s.humidity, weights.humidity)),
         RMul(s.solar_radiation, weights.solar_radiation))

\* try: ... return crop_health_score / except Exception: st.error; return None
calculate_rice_crop_health_score(row) ==
    LET s == parameter_scores(row)
    IN  IF \E p \in Params : s[p] = TypeError THEN None ELSE weighted_sum(s)

(***************************************************************************)
(* The scoring functions applied to readings drawn from bounded grids.     *)
(***************************************************************************)
MaxTemperature == 60
MaxRainStep == 53

\* temperatures in half degrees, -10.0 .. MaxTemperature
TemperatureGrid == {Rat(k, 2) : k \in -20 .. 2 * MaxTemperature}
\* rainfall totals in steps of 5 mm, -5 .. 5 * MaxRainStep
RainfallGrid == {R(5 * k) : k \in -1 .. MaxRainStep}

RowValues ==
    [temperature     |-> {None, R(-999), R(10), R(20), Rat(45, 2), R(25), R(35), R(40), R(50)},
     humidity        |-> {None, R(50), R(60), R(65), R(70), R(80), R(95)},
     precipitation   |-> {None, R(0), R(100), R(150), R(175), R(200), R(220)},
     solar_radiation |-> {None, R(3), R(4), Rat(9, 2), R(5), R(6), R(30)}]

Rows == {row \in [Params -> UNION {RowValues[p] : p \in Params}] :
            \A p \in Params : row[p] \in RowValues[p]}

IdleDash ==
    /\ script = "none"
    /\ response = <<>>
    /\ df = <<>>
    /\ filtered_df = <<>>
    /\ messages = <<>>
    /\ out = <<>>

\* A caller has a reading in hand and is about to score it.
InitScore ==
    /\ pc = "called"
    /\ \/ /\ call = "analyze_rice_crop_health"
          /\ args \in [temperature : TemperatureGrid, rainfall : RainfallGrid]
       \/ /\ call = "calculate_rice_crop_health_score"
          /\ args \in Rows
    /\ scores = <<>>
    /\ ret = None
    /\ IdleDash

AnalyzeRiceCropHealth ==
    /\ pc = "called"
    /\ call = "analyze_rice_crop_health"
    /\ scores' = [temp_score |-> temp_score(args.temperature),
                  rain_score |-> rain_score(args.rainfall)]
    /\ ret' = analyze_rice_crop_health(args.temperature, args.rainfall)
    /\ pc' = "returned"
    /\ UNCHANGED <<call, args, script, response, df, filtered_df, messages, out>>

CalculateRiceCropHealthScore ==
    /\ pc = "called"
    /\ call = "calculate_rice_crop_health_score"
    /\ scores' = parameter_scores(args)
    /\ ret' = calculate_rice_crop_health_score(args)
    /\ messages' = IF ret' = None
                   THEN Append(messages, "Error calculating crop health score")
                   ELSE messages
    /\ pc' = "returned"
    /\ UNCHANGED <<call, args, script, response, df, filtered_df, out>>

NextScore == AnalyzeRiceCropHealth \/ CalculateRiceCropHealthScore

SpecScore == InitScore /\ [][NextScore]_vars

(***************************************************************************)
(* Dates.  A date string is a sequence of one-character strings; a parsed  *)
(* date (datetime / Timestamp at midnight) is its proleptic Gregorian      *)
(* ordinal, so that adding a Timedelta of i days is adding i.              *)
(***************************************************************************)
Digits == {"0", "1", "2", "3", "4", "5", "6", "7", "8", "9"}

DigitVal(c) ==
    CASE c = "0" -> 0 [] c = "1" -> 1 [] c = "2" -> 2 [] c = "3" -> 3
      [] c = "4" -> 4 [] c = "5" -> 5 [] c = "6" -> 6 [] c = "7" -> 7
      [] c = "8" -> 8 [] c = "9" -> 9

\* the number written by the digits s[i..j]
RECURSIVE Number(_, _, _)
Number(s, i, j) ==
    IF j < i THEN 0 ELSE 10 * Number(s, i, j - 1) + DigitVal(s[j])

AllDigits(s, i, j) == \A k \in i .. j : s[k] \in Digits

IsLeap(y) == (y % 4 = 0 /\ y % 100 # 0) \/ y % 400 = 0

DaysInMonth(y, m) ==
    IF m = 2 THEN (IF IsLeap(y) THEN 29 ELSE 28)
    ELSE IF m \in {4, 6, 9, 11} THEN 30 ELSE 31

RECURSIVE DaysBeforeMonth(_, _)
DaysBeforeMonth(y, m) ==
    IF m = 1 THEN 0 ELSE DaysBeforeMonth(y, m - 1) + DaysInMonth(y, m - 1)

ValidYmd(y, m, d) == y >= 1 /\ m \in 1 .. 12 /\ d \in 1 .. DaysInMonth(y, m)

Ordinal(y, m, d) ==
    365 * (y - 1) + ((y - 1) \div 4) - ((y - 1) \div 100) + ((y - 1) \div 400)
        + DaysBeforeMonth(y, m) + d

\* mutant: eight digits accepted without checking the calendar
StrptimeOk_no_calendar(s) ==
    /\ Len(s) = 8
    /\ AllDigits(s, 1, 8)

\* datetime.strptime(date, "%Y%m%d") on an eight character key: does it parse
StrptimeOk(s) ==
    /\ Len(s) = 8
    /\ AllDigits(s, 1, 8)
    /\ ValidYmd(Number(s, 1, 4), Number(s, 5, 6), Number(s, 7, 8))

strptime(s) == Ordinal(Number(s, 1, 4), Number(s, 5, 6), Number(s, 7, 8))

\* pd.to_datetime on an ISO "YYYY-MM-DD" string
to_datetime(s) == Ordinal(Number(s, 1, 4), Number(s, 6, 7), Number(s, 9, 10))

(***************************************************************************)
(* No_Name.py: what the NASA POWER request can answer.                     *)
(***************************************************************************)
MaxLen == 3

\* keys of data['properties']['parameter'], in the order the provider sends
\* them: three dates across a month end, a day that does not exist, and a
\* parameter name where a date is expected
ParameterKeys ==
    << <<"2", "0", "2", "4", "0", "1", "3", "1">>,
       <<"2", "0", "2", "4", "0", "2", "0", "1">>,
       <<"2", "0", "2", "4", "0", "2", "0", "2">>,
       <<"2", "0", "2", "4", "0", "2", "3", "0">>,
       <<"T", "2", "M">> >>

\* one day's values: complete, complete but poor, without solar radiation,
\* without temperature
DayValues ==
    { [T2M |-> R(25), RH2M |-> R(70), PRECTOTCORR |-> R(150), ALLSKY_SFC_SW_DWN |-> R(5)],
      [T2M |-> R(30), RH2M |-> R(50), PRECTOTCORR |-> R(0), ALLSKY_SFC_SW_DWN |-> R(6)],
      [T2M |-> R(22), RH2M |-> R(65), PRECTOTCORR |-> R(2)],
      [RH2M |-> R(80), PRECTOTCORR |-> R(10), ALLSKY_SFC_SW_DWN |-> R(4)] }

\* strictly increasing index sequences into 1..n of length at most MaxLen
RECURSIVE Picks(_, _)
Picks(n, len) ==
    IF len = 0 THEN {<<>>}
    ELSE LET shorter == Picks(n, len - 1)
         IN  shorter \cup
             {Append(q, k) : q \in {x \in shorter : Len(x) = len - 1},
                             k \in 1 .. n} 

Ascending(q) == \A i \in 1 .. Len(q) - 1 : q[i] < q[i + 1]

\* a dict as the sequence of its items in insertion order
ParameterDicts ==
    UNION { { [i \in 1 .. Len(q) |-> <<ParameterKeys[q[i]], vals[i]>>] :
                vals \in [1 .. Len(q) -> DayValues] } :
            q \in {x \in Picks(Len(ParameterKeys), MaxLen) : Ascending(x)} }

NasaResponses ==
    { [kind |-> "RequestException"],
      [kind |-> "HTTP", status_code |-> 500],
      [kind |-> "BadJSON", status_code |-> 200],
      [kind |-> "JSON", status_code |-> 200, data |-> [messages |-> <<>>]],
      [kind |-> "JSON", status_code |-> 200, data |-> [properties |-> [header |-> <<>>]]] }
    \cup
    { [kind |-> "JSON", status_code |-> 200, data |-> [properties |-> [parameter |-> d]]] :
        d \in ParameterDicts }

\* mutant: a missing parameter defaults to 0 instead of None
Get_default_zero(values, key) == IF key \in DOMAIN values THEN values[key] ELSE R(0)

\* dict.get(key, None)
Get(values, key) == IF key \in DOMAIN values THEN values[key] ELSE None

\* lines 71-81: one row per item whose key parses; the others only report
RECURSIVE processed_data(_)
processed_data(items) ==
    IF items = <<>> THEN <<>>
    ELSE LET date == items[1][1]
             values == items[1][2]
             rest == processed_data(Tail(items))
         IN  IF StrptimeOk(date)
             THEN <<[date |-> strptime(date),
                     temperature |-> Get(values, "T2M"),
                     humidity |-> Get(values, "RH2M"),
                     precipitation |-> Get(values, "PRECTOTCORR"),
                     solar_radiation |-> Get(values, "ALLSKY_SFC_SW_DWN")]>> \o rest
             ELSE rest

RECURSIVE processing_errors(_)
processing_errors(items) ==
    IF items = <<>> THEN <<>>
    ELSE (IF StrptimeOk(items[1][1]) THEN <<>> ELSE <<"Error processing date">>)
         \o processing_errors(Tail(items))

\* mutant: dropna(how='all'), which keeps a row while its date is present
dropna_how_all(rows) ==
    SelectSeq(rows, LAMBDA r : r.date >= 1 \/ \E p \in Params : r[p] # None)

\* DataFrame.dropna(): rows with any missing value go
dropna(rows) ==
    SelectSeq(rows, LAMBDA r : \A p \in Params : r[p] # None)

(***************************************************************************)
(* The dashboards' runs.                                                   *)
(***************************************************************************)
NoOutput ==
    [data      |-> "pending",  \* what the fetch returned: "None" or its type
     scores    |-> <<>>,       \* crop health scores computed
     metrics   |-> <<>>,       \* summary statistics shown
     model     |-> <<>>,       \* fitted LinearRegression
     future    |-> <<>>,       \* future_temps_df
     charts    |-> 0,          \* st.plotly_chart calls
     exception |-> "none"]     \* exception that left main()

IdleScore ==
    /\ call = "none"
    /\ args = <<>>
    /\ scores = <<>>
    /\ ret = None

\* Series.sum() / Series.mean(): missing values are skipped
Total(xs) ==
    LET RECURSIVE Sum(_)
        Sum(q) == IF q = <<>> THEN R(0)
                  ELSE IF q[1] = None THEN Sum(Tail(q))
                  ELSE RAdd(q[1], Sum(Tail(q)))
    IN  Sum(xs)

Mean(xs) ==
    RDiv(Total(xs), R(Len(SelectSeq(xs, LAMBDA x : x # None))))

Column(rows, name) == [i \in 1 .. Len(rows) |-> rows[i][name]]

HasParameter(data) ==
    IF "properties" \in DOMAIN data
    THEN "parameter" \in DOMAIN data.properties
    ELSE FALSE

\* fetch_nasa_power_data: every way out of the function
FetchNasaPowerData ==
    /\ script = "No_Name"
    /\ pc = "start"
    /\ pc' = "fetched"
    /\ \/ /\ response.kind = "RequestException"
          /\ messages' = Append(messages, "Request Error")
          /\ df' = <<>>
          /\ out' = [out EXCEPT !.data = "None"]
       \/ /\ response.kind \in {"HTTP", "BadJSON", "JSON"}
          /\ response.status_code # 200
          /\ messages' = messages \o <<"HTTP Error", "Response Content">>
          /\ df' = <<>>
          /\ out' = [out EXCEPT !.data = "None"]
       \/ /\ response.kind = "BadJSON"
          /\ response.status_code = 200
          /\ messages' = messages \o <<"JSON Decode Error", "Response Content">>
          /\ df' = <<>>
          /\ out' = [out EXCEPT !.data = "None"]
       \/ /\ response.kind = "JSON"
          /\ response.status_code = 200
          /\ ~HasParameter(response.data)
          /\ messages' = messages \o <<"Unexpected data structure", "Received data">>
          /\ df' = <<>>
          /\ out' = [out EXCEPT !.data = "None"]
       \/ /\ response.kind = "JSON"
          /\ response.status_code = 200
          /\ HasParameter(response.data)
          /\ LET items == response.data.properties.parameter
                 rows == dropna(processed_data(items))
             IN  IF rows = <<>>
                 THEN /\ messages' = messages \o processing_errors(items)
                                        \o <<"No valid data could be processed">>
                      /\ df' = <<>>
                      /\ out' = [out EXCEPT !.data = "None"]
                 ELSE /\ messages' = messages \o processing_errors(items)
                      /\ df' = rows
                      /\ out' = [out EXCEPT !.data = "DataFrame"]
    /\ UNCHANGED <<call, args, scores, ret, script, response, filtered_df>>

\* No_Name.py main, lines 179-188: score every row, drop rows without a score
NasaScore ==
    /\ script = "No_Name"
    /\ pc = "fetched"
    /\ out.data = "DataFrame" /\ df # <<>>
    /\ LET column == [i \in 1 .. Len(df) |-> calculate_rice_crop_health_score(df[i])]
           kept == {i \in 1 .. Len(df) : column[i] # None}
           failed == SelectSeq(column, LAMBDA x : x = None)
           errors == [i \in 1 .. Len(failed) |-> "Error calculating crop health score"]
       IN  IF kept = {}
           THEN /\ messages' = messages \o errors
                                  \o <<"No valid crop health scores could be calculated.">>
                /\ pc' = "done"
                /\ UNCHANGED <<df, out>>
           ELSE /\ messages' = messages \o errors
                /\ df' = SelectSeq(df, LAMBDA r : calculate_rice_crop_health_score(r) # None)
                /\ out' = [out EXCEPT !.scores = SelectSeq(column, LAMBDA x : x # None)]
                /\ pc' = "scored"
    /\ UNCHANGED <<call, args, scores, ret, script, response, filtered_df>>

\* No_Name.py main, lines 190-227: metrics, three charts, download button
NasaRender ==
    /\ script = "No_Name"
    /\ pc = "scored"
    /\ out' = [out EXCEPT
                 !.metrics = <<Mean(Column(df, "temperature")),
                               Total(Column(df, "precipitation")),
                               Mean(out.scores)>>,
                 !.charts = 3]
    /\ pc' = "done"
    /\ UNCHANGED <<call, args, scores, ret, script, response, df, filtered_df, messages>>

\* No_Name.py main, lines 229-230
NasaNoData ==
    /\ script = "No_Name"
    /\ pc = "fetched"
    /\ ~(out.data = "DataFrame" /\ df # <<>>)
    /\ messages' = Append(messages, "No data could be retrieved from NASA POWER API.")
    /\ pc' = "done"
    /\ UNCHANGED <<call, args, scores, ret, script, response, df, filtered_df, out>>

(***************************************************************************)
(* Most_Definitly_Not_My_Crop.py and Not_My_App.py: Open-Meteo dashboards. *)
(***************************************************************************)
\* dates the provider may list under daily.time, in its (ascending) order
DailyTimes ==
    << <<"2", "0", "2", "4", "-", "0", "1", "-", "3", "0">>,
       <<"2", "0", "2", "4", "-", "0", "1", "-", "3", "1">>,
       <<"2", "0", "2", "4", "-", "0", "2", "-", "0", "1">>,
       <<"2", "0", "2", "4", "-", "0", "2", "-", "0", "2">> >>

\* one day's <<temperature_2m_max, temperature_2m_min, precipitation_sum>>
DailyValues ==
    { <<R(11), R(9), R(0)>>, <<R(13), R(11), R(50)>>,
      <<R(15), R(13), R(75)>>, <<R(30), R(21), R(0)>> }

Daily(q, vals) ==
    [time               |-> [i \in 1 .. Len(q) |-> DailyTimes[q[i]]],
     temperature_2m_max |-> [i \in 1 .. Len(q) |-> vals[i][1]],
     temperature_2m_min |-> [i \in 1 .. Len(q) |-> vals[i][2]],
     precipitation_sum  |-> [i \in 1 .. Len(q) |-> vals[i][3]]]

WellFormedDaily ==
    UNION { { Daily(q, vals) : vals \in [1 .. Len(q) -> DailyValues] } :
            q \in {x \in Picks(Len(DailyTimes), MaxLen) : Ascending(x) /\ x # <<>>} }

SampleDaily == Daily(<<1, 2>>, <<<<R(11), R(9), R(0)>>, <<R(13), R(11), R(50)>>>>)

\* payloads that break the provider's contract
MalformedData ==
    { <<>>,
      [error |-> TRUE, reason |-> "out of range"],
      [daily |-> [time |-> SampleDaily.time,
                  temperature_2m_max |-> SampleDaily.temperature_2m_max,
                  temperature_2m_min |-> SampleDaily.temperature_2m_min]],
      [daily |-> [SampleDaily EXCEPT !.precipitation_sum = <<R(0)>>]],
      [daily |-> [SampleDaily EXCEPT !.time = <<DailyTimes[1]>>]] }

MeteoResponses ==
    { [kind |-> "Exception"] }
    \cup { [kind |-> "JSON", data |-> d] : d \in MalformedData }
    \cup { [kind |-> "JSON", data |-> [daily |-> d]] : d \in WellFormedDaily }

DailyKeys == {"time", "temperature_2m_max", "temperature_2m_min", "precipitation_sum"}

\* data["daily"][...] raises KeyError on a missing key
RaisesKeyError(data) ==
    IF "daily" \notin DOMAIN data THEN TRUE
    ELSE \E k \in DailyKeys : k \notin DOMAIN data.daily

\* pd.DataFrame raises ValueError when its columns differ in length
RaisesValueError(data) ==
    \E k \in DailyKeys : Len(data.daily[k]) # Len(data.daily.time)

\* Most_Definitly_Not_My_Crop.py process_weather_data
process_weather_data(data) ==
    [i \in 1 .. Len(data.daily.time) |->
        [date            |-> to_datetime(data.daily.time[i]),
         max_temperature |-> data.daily.temperature_2m_max[i],
         min_temperature |-> data.daily.temperature_2m_min[i],
         rainfall        |-> data.daily.precipitation_sum[i],
         avg_temperature |-> RDiv(RAdd(data.daily.temperature_2m_max[i],
                                       data.daily.temperature_2m_min[i]), R(2))]]

\* Not_My_App.py process_weather_data
process_weather_data_app(data) ==
    [i \in 1 .. Len(data.daily.time) |->
        [date            |-> to_datetime(data.daily.time[i]),
         max_temperature |-> data.daily.temperature_2m_max[i],
         min_temperature |-> data.daily.temperature_2m_min[i],
         rainfall        |-> data.daily.precipitation_sum[i]]]

MinOf(xs) == CHOOSE m \in {xs[i] : i \in 1 .. Len(xs)} :
                \A i \in 1 .. Len(xs) : m <= xs[i]
MaxOf(xs) == CHOOSE m \in {xs[i] : i \in 1 .. Len(xs)} :
                \A i \in 1 .. Len(xs) : m >= xs[i]

\* df['days'] = (df['date'] - df['date'].min()).dt.days
days(rows) ==
    [i \in 1 .. Len(rows) |-> rows[i].date - MinOf(Column(rows, "date"))]

SumInt(xs) ==
    LET RECURSIVE Sum(_)
        Sum(q) == IF q = <<>> THEN 0 ELSE q[1] + Sum(Tail(q))
    IN  Sum(xs)

\* mutant: a regression through the origin (fit_intercept=False)
fit_no_intercept(X, y) ==
    LET sxx == SumInt([i \in 1 .. Len(X) |-> X[i] * X[i]])
        sxy == Total([i \in 1 .. Len(X) |-> RMul(R(X[i]), y[i])])
    IN  [coef      |-> IF sxx = 0 THEN R(0) ELSE RDiv(sxy, R(sxx)),
         intercept |-> R(0)]

\* LinearRegression().fit(X, y): ordinary least squares with an intercept;
\* with no spread in X the minimum-norm solution has slope 0
fit(X, y) ==
    LET n   == Len(X)
        sx  == SumInt(X)
        sxx == SumInt([i \in 1 .. n |-> X[i] * X[i]])
        sy  == Total(y)
        sxy == Total([i \in 1 .. n |-> RMul(R(X[i]), y[i])])
        den == n * sxx - sx * sx
        coef == IF den = 0 THEN R(0)
                ELSE RDiv(RSub(RMul(R(n), sxy), RMul(R(sx), sy)), R(den))
    IN  [coef      |-> coef,
         intercept |-> RDiv(RSub(sy, RMul(coef, R(sx))), R(n))]

\* model.predict
predict(model, x) == RAdd(model.intercept, RMul(model.coef, R(x)))

HorizonEnd == 31

\* mutant: the range starts at the last observed day
future_days_from_last(rows) ==
    [i \in 1 .. HorizonEnd - 1 |-> MaxOf(days(rows)) + i - 1]

\* np.arange(df['days'].max() + 1, df['days'].max() + 31)
future_days(rows) ==
    [i \in 1 .. HorizonEnd - 1 |-> MaxOf(days(rows)) + i]

\* [df['date'].max() + pd.Timedelta(days=i) for i in range(1, 31)]
future_dates(rows) ==
    [i \in 1 .. HorizonEnd - 1 |-> MaxOf(Column(rows, "date")) + i]

trend_model(rows) == fit(days(rows), Column(rows, "avg_temperature"))

predict_future_temperatures(rows) ==
    [i \in 1 .. HorizonEnd - 1 |->
        [date |-> future_dates(rows)[i],
         predicted_avg_temperature |->
             predict(trend_model(rows), future_days(rows)[i])]]

MeteoScripts == {"Most_Definitly_Not_My_Crop", "Not_My_App"}

\* fetch_weather_data, then main's "if weather_data:" with nothing to show
FetchWeatherData ==
    /\ script \in MeteoScripts
    /\ pc = "start"
    /\ \/ /\ response.kind = "Exception"
          /\ messages' = Append(messages, "Error fetching data")
          /\ out' = [out EXCEPT !.data = "None"]
          /\ pc' = "done"
       \/ /\ response.kind = "JSON"
          /\ response.data = <<>>
          /\ out' = [out EXCEPT !.data = "dict"]
          /\ pc' = "done"
          /\ UNCHANGED messages
       \/ /\ response.kind = "JSON"
          /\ response.data # <<>>
          /\ out' = [out EXCEPT !.data = "dict"]
          /\ pc' = "fetched"
          /\ UNCHANGED messages
    /\ UNCHANGED <<call, args, scores, ret, script, response, df, filtered_df>>

\* main line 84 (70 in Not_My_App.py): nothing catches what it raises
ProcessWeatherData ==
    /\ script \in MeteoScripts
    /\ pc = "fetched"
    /\ \/ /\ RaisesKeyError(response.data)
          /\ out' = [out EXCEPT !.exception = "KeyError"]
          /\ pc' = "crashed"
          /\ UNCHANGED df
       \/ /\ ~RaisesKeyError(response.data)
          /\ RaisesValueError(response.data)
          /\ out' = [out EXCEPT !.exception = "ValueError"]
          /\ pc' = "crashed"
          /\ UNCHANGED df
       \/ /\ ~RaisesKeyError(response.data)
          /\ ~RaisesValueError(response.data)
          /\ df' = IF script = "Not_My_App"
                   THEN process_weather_data_app(response.data)
                   ELSE process_weather_data(response.data)
          /\ pc' = "processed"
          /\ UNCHANGED out
    /\ UNCHANGED <<call, args, scores, ret, script, response, filtered_df, messages>>

\* dates the user may pick in the two date inputs
RangeDays == {to_datetime(DailyTimes[i]) : i \in 1 .. Len(DailyTimes)}

\* main lines 93-95 (79-81): the user's range selects the rows
FilterByDateRange ==
    /\ script \in MeteoScripts
    /\ pc = "processed"
    /\ \E start_date \in RangeDays, end_date \in RangeDays :
          filtered_df' = SelectSeq(df, LAMBDA r : r.date >= start_date /\ r.date <= end_date)
    /\ pc' = "filtered"
    /\ UNCHANGED <<call, args, scores, ret, script, response, df, messages, out>>

\* main lines 144-145 (112-113)
WarnNoData ==
    /\ script \in MeteoScripts
    /\ pc = "filtered"
    /\ filtered_df = <<>>
    /\ messages' = Append(messages, "No data available for the selected date range.")
    /\ pc' = "done"
    /\ UNCHANGED <<call, args, scores, ret, script, response, df, filtered_df, out>>

\* Most_Definitly_Not_My_Crop.py main lines 102-113
CropAnalyze ==
    /\ script = "Most_Definitly_Not_My_Crop"
    /\ pc = "filtered"
    /\ filtered_df # <<>>
    /\ LET avg_temp == Mean(Column(filtered_df, "avg_temperature"))
           total_rainfall == Total(Column(filtered_df, "rainfall"))
       IN  out' = [out EXCEPT
                     !.metrics = <<avg_temp, total_rainfall>>,
                     !.scores = <<analyze_rice_crop_health(avg_temp, total_rainfall)>>]
    /\ pc' = "analyzed"
    /\ UNCHANGED <<call, args, scores, ret, script, response, df, filtered_df, messages>>

\* main lines 115-119: the projection is fitted on the whole weather_df
CropPredict ==
    /\ script = "Most_Definitly_Not_My_Crop"
    /\ pc = "analyzed"
    /\ out' = [out EXCEPT !.model = trend_model(df),
                          !.future = predict_future_temperatures(df)]
    /\ pc' = "predicted"
    /\ UNCHANGED <<call, args, scores, ret, script, response, df, filtered_df, messages>>

\* main lines 121-142: three charts, then the health graph over the rows
CropRender ==
    /\ script = "Most_Definitly_Not_My_Crop"
    /\ pc = "predicted"
    /\ out' = [out EXCEPT
                 !.charts = 4,
                 !.scores = out.scores \o
                     [i \in 1 .. Len(filtered_df) |->
                         analyze_rice_crop_health(filtered_df[i].avg_temperature,
                                                  out.metrics[2])]]
    /\ pc' = "done"
    /\ UNCHANGED <<call, args, scores, ret, script, response, df, filtered_df, messages>>

\* Not_My_App.py analyze_crop_impact
analyze_crop_impact(avg_temp, total_rainfall) ==
    <<IF RLt(total_rainfall, R(50)) THEN "Low rainfall, irrigation needed."
      ELSE IF RLe(total_rainfall, R(150)) THEN "Optimal rainfall for most crops."
      ELSE "Excess rainfall, risk of waterlogging.",
      IF RLt(avg_temp, R(20)) THEN "Low temperature, slow growth likely."
      ELSE IF RLe(avg_temp, R(30)) THEN "Optimal temperature for growth."
      ELSE "High temperature, risk of heat stress.">>

\* Not_My_App.py main lines 88-110
AppAnalyzeAndRender ==
    /\ script = "Not_My_App"
    /\ pc = "filtered"
    /\ filtered_df # <<>>
    /\ LET avg_temp == Mean(<<Mean(Column(filtered_df, "max_temperature")),
                              Mean(Column(filtered_df, "min_temperature"))>>)
           total_rainfall == Total(Column(filtered_df, "rainfall"))
       IN  out' = [out EXCEPT
                     !.metrics = <<avg_temp, total_rainfall>>
                                    \o analyze_crop_impact(avg_temp, total_rainfall),
                     !.charts = 2]
    /\ pc' = "done"
    /\ UNCHANGED <<call, args, scores, ret, script, response, df, filtered_df, messages>>

InitNasa ==
    /\ script = "No_Name"
    /\ response \in NasaResponses

InitMeteo ==
    /\ script \in MeteoScripts
    /\ response \in MeteoResponses

Init ==
    /\ IdleScore
    /\ pc = "start"
    /\ df = <<>>
    /\ filtered_df = <<>>
    /\ messages = <<>>
    /\ out = NoOutput
    /\ (InitNasa \/ InitMeteo)

Next ==
    \/ FetchNasaPowerData
    \/ NasaScore
    \/ NasaRender
    \/ NasaNoData
    \/ FetchWeatherData
    \/ ProcessWeatherData
    \/ FilterByDateRange
    \/ WarnNoData
    \/ CropAnalyze
    \/ CropPredict
    \/ CropRender
    \/ AppAnalyzeAndRender

Spec == Init /\ [][Next]_vars

(***************************************************************************)
(* Claims about the scoring functions (checked under SpecScore).           *)
(***************************************************************************)
InUnit(x) == RLe(R(0), x) /\ RLe(x, R(100))

Returned(f) == pc = "returned" /\ call = f

\* C1: under both policies the combined score, and every per-parameter
\* score entering the sum, lies in [0, 100].
C1_ScoreBounded ==
    pc = "returned" =>
        /\ ret # None
        /\ InUnit(ret)
        /\ \A k \in DOMAIN scores : InUnit(scores[k])

\* a reading whose raw temperature penalty is below zero was scored
C1_Witness ==
    /\ Returned("analyze_rice_crop_health")
    /\ args.temperature = R(60)
    /\ scores.temp_score = R(0)
    /\ RLt(R(0), ret)

GridSteps == 20

\* GridSteps + 1 evenly spaced values across [min, max]
BandGrid(c) ==
    {RAdd(c.min, RMul(Rat(k, GridSteps), RSub(c.max, c.min))) : k \in 0 .. GridSteps}

InBand(v, c) == v # None /\ RLe(c.min, v) /\ RLe(v, c.max)

Distance(v, c) == RAbs(RSub(v, c.ideal))

\* C4: inside [min, max] a Policy B parameter value strictly closer to ideal
\* scores strictly higher than one farther from ideal.
C4_StrictlyMonotoneInBand ==
    Returned("calculate_rice_crop_health_score") =>
        \A p \in Params :
            InBand(args[p], conditions[p]) =>
                \A v2 \in BandGrid(conditions[p]) :
                    LET s2 == calculate_parameter_score(v2, conditions[p])
                    IN  /\ RLt(Distance(args[p], conditions[p]), Distance(v2, conditions[p]))
                            => RLt(s2, scores[p])
                        /\ RLt(Distance(v2, conditions[p]), Distance(args[p], conditions[p]))
                            => RLt(scores[p], s2)

\* an in-band temperature on the short side of the band (20, distance 5) was
\* scored; the band holds values both closer to and farther from ideal
C4_Witness ==
    /\ Returned("calculate_rice_crop_health_score")
    /\ args.temperature = R(20)
    /\ scores.temperature = R(75)
    /\ R(35) \in BandGrid(conditions.temperature)
    /\ calculate_parameter_score(R(35), conditions.temperature) = R(0)

IdealRow == [p \in Params |-> conditions[p].ideal]

\* C8: when every input equals its ideal, every per-parameter score is 100
\* and the combined score is exactly 100, under Policy A and Policy B.
C8_IdealScores100 ==
    /\ (Returned("analyze_rice_crop_health")
            /\ args.temperature = R(25) /\ args.rainfall = R(125))
        => (scores.temp_score = R(100) /\ scores.rain_score = R(100)
            /\ ret = R(100))
    /\ (Returned("calculate_rice_crop_health_score") /\ args = IdealRow)
        => ((\A p \in Params : scores[p] = R(100)) /\ ret = R(100))

C8_Witness ==
    /\ Returned("calculate_rice_crop_health_score")
    /\ args = [temperature |-> R(25), humidity |-> R(70),
               precipitation |-> R(150), solar_radiation |-> R(5)]
    /\ ret = R(100)

Contribution(p) ==
    IF args[p] = None THEN R(0) ELSE RMul(scores[p], weights[p])

\* C10: with any subset of humidity, precipitation and solar_radiation absent,
\* Policy B returns a number, each absent parameter scores exactly 0 and the
\* result is the weighted sum of the scores of the parameters present.
C10_AbsentScoresZero ==
    (Returned("calculate_rice_crop_health_score") /\ args.temperature # None) =>
        /\ ret # None
        /\ Len(ret) = 2
        /\ \A p \in Params : args[p] = None => scores[p] = R(0)
        /\ ret = RAdd(RAdd(RAdd(Contribution("temperature"),
                                Contribution("precipitation")),
                           Contribution("humidity")),
                      Contribution("solar_radiation"))

\* all three optional parameters absent: only temperature contributes
C10_Witness ==
    /\ Returned("calculate_rice_crop_health_score")
    /\ args.temperature = R(25)
    /\ args.humidity = None
    /\ args.precipitation = None
    /\ args.solar_radiation = None
    /\ ret = R(35)

\* values a scored value is compared with: the band, edge to edge, and the
\* readings' own values on both sides of it
ComparisonValues(p) == BandGrid(conditions[p]) \cup (RowValues[p] \ {None})

\* C11: for every Policy B parameter the per-parameter score is
\* non-increasing in |value - ideal| over the whole input domain; in
\* particular a value outside [min, max] never scores higher than a value
\* inside [min, max] that is closer to ideal.
C11_NonIncreasingEverywhere ==
    Returned("calculate_rice_crop_health_score") =>
        \A p \in Params :
            args[p] # None =>
                \A v2 \in ComparisonValues(p) :
                    RLt(Distance(v2, conditions[p]), Distance(args[p], conditions[p]))
                        => RLe(scores[p],
                               calculate_parameter_score(v2, conditions[p]))

(***************************************************************************)
(* Claims about the dashboards (checked under Spec).                       *)
(***************************************************************************)
\* the keys of ParameterKeys that are calendar dates, and those that are not
DateKeys == {ParameterKeys[1], ParameterKeys[2], ParameterKeys[3]}
UnparsableKeys == {ParameterKeys[4], ParameterKeys[5]}

SourceKeys == {"T2M", "RH2M", "PRECTOTCORR", "ALLSKY_SFC_SW_DWN"}

\* the NASA fetch has run on a payload that has its parameter container
NasaNormalized ==
    /\ script = "No_Name"
    /\ pc # "start"
    /\ response.kind = "JSON"
    /\ HasParameter(response.data)

Items == response.data.properties.parameter

Incomplete(i) == \E k \in SourceKeys : k \notin DOMAIN Items[i][2]

\* C2: a date-keyed payload's records that lack a required parameter are
\* dropped whole: with N dates of which exactly one lacks a parameter the
\* series has N-1 records, and no surviving record has a missing value.
C2_IncompleteRecordsDropped ==
    NasaNormalized =>
        /\ \A i \in 1 .. Len(df) : \A p \in Params : df[i][p] # None
        /\ ((\A i \in 1 .. Len(Items) : Items[i][1] \in DateKeys)
              /\ Cardinality({i \in 1 .. Len(Items) : Incomplete(i)}) = 1)
            => Len(df) = Len(Items) - 1

\* three dates, the middle one without solar radiation: two records remain
C2_Witness ==
    /\ NasaNormalized
    /\ Len(Items) = 3
    /\ \A i \in 1 .. 3 : Items[i][1] \in DateKeys
    /\ "ALLSKY_SFC_SW_DWN" \notin DOMAIN Items[2][2]
    /\ ~Incomplete(1) /\ ~Incomplete(3)
    /\ out.data = "DataFrame"
    /\ Len(df) = 2

\* main() of Most_Definitly_Not_My_Crop.py has projected the temperatures
Projected ==
    /\ script = "Most_Definitly_Not_My_Crop"
    /\ pc = "predicted" \/ (pc = "done" /\ out.charts > 0)

LastOffset == df[Len(df)].date - df[1].date

\* C3: for a non-empty series the projection has exactly 30 points, dated
\* day by day from the day after the last observed date, the d-th being the
\* fitted line at day-offset lastOffset + d (offsets count whole days from
\* the earliest date).
C3_ThirtyContiguousPoints ==
    Projected =>
        /\ Len(df) > 0
        /\ Len(out.future) = 30
        /\ out.future[1].date = df[Len(df)].date + 1
        /\ \A i \in 2 .. 30 : out.future[i].date = out.future[i - 1].date + 1
        /\ \A d \in 1 .. 30 :
              out.future[d].predicted_avg_temperature =
                  RAdd(out.model.intercept, RMul(out.model.coef, R(LastOffset + d)))

\* observed on 2024-01-30 and 2024-02-02 (offsets 0 and 3, rising 10 -> 14):
\* the projection runs from 2024-02-03 to 2024-03-03
C3_Witness ==
    /\ Projected
    /\ response.data.daily.time = <<DailyTimes[1], DailyTimes[4]>>
    /\ LastOffset = 3
    /\ out.model.coef = Rat(4, 3)
    /\ out.future[1].date = Ordinal(2024, 2, 3)
    /\ out.future[30].date = Ordinal(2024, 3, 3)
    /\ out.future[30].predicted_avg_temperature = R(54)

\* C5 as stated: a payload with an unparsable date key yields a failure
\* outcome, not a series.
C5_UnparsableKeyFails ==
    (NasaNormalized /\ \E i \in 1 .. Len(Items) : Items[i][1] \in UnparsableKeys)
        => out.data = "None"

Usable == {i \in 1 .. Len(Items) : Items[i][1] \in DateKeys /\ ~Incomplete(i)}

Count(seq, x) == Cardinality({i \in 1 .. Len(seq) : seq[i] = x})

\* C5 amended: each unparsable date key is reported with an error message
\* and its record alone is skipped; the outcome is the series of the complete
\* records under parsable keys, and a failure only when no such record is left.
C5_UnparsableKeySkipped ==
    NasaNormalized =>
        /\ Count(messages, "Error processing date")
              = Cardinality({i \in 1 .. Len(Items) : Items[i][1] \in UnparsableKeys})
        /\ Len(df) = Cardinality(Usable)
        /\ \A i \in 1 .. Len(df) :
              \E j \in Usable : df[i].date = strptime(Items[j][1])
        /\ (out.data = "None") <=> (Usable = {})

\* a day that does not exist (20240230) after a complete record: the record
\* is returned and the key reported
C5_Witness ==
    /\ NasaNormalized
    /\ Len(Items) = 2
    /\ Items[1][1] = ParameterKeys[1] /\ ~Incomplete(1)
    /\ Items[2][1] = ParameterKeys[4] /\ ~Incomplete(2)
    /\ out.data = "DataFrame"
    /\ Len(df) = 1
    /\ messages = <<"Error processing date">>

\* a provider payload without its containers, or with arrays of unequal
\* length (the empty object {}, which main's "if weather_data:" skips without
\* a word, is left aside)
StructurallyInvalid ==
    /\ response.kind = "JSON"
    /\ IF script = "No_Name"
       THEN ~HasParameter(response.data)
       ELSE response.data \in MalformedData \ {<<>>}

\* C6: a structurally invalid payload ends in a user-visible message and
\* never in an uncaught exception that terminates the run.
C6_InvalidPayloadEndsInMessage ==
    StructurallyInvalid =>
        /\ pc # "crashed"
        /\ pc = "done" => messages # <<>>

\* zero records are left after filtering
EmptySeries ==
    \/ NasaNormalized /\ Usable = {}
    \/ /\ script \in MeteoScripts
       /\ pc \in {"filtered", "analyzed", "predicted", "done", "crashed"}
       /\ df # <<>>
       /\ filtered_df = <<>>

NothingComputed ==
    /\ out.scores = <<>>
    /\ out.metrics = <<>>
    /\ out.model = <<>>
    /\ out.future = <<>>
    /\ out.charts = 0

\* C7: when zero records remain after filtering the run reports an
\* empty-series outcome, performs no scoring, no trend fit and no chart
\* rendering, and does not crash.
C7_EmptySeriesReported ==
    EmptySeries =>
        /\ pc \in {"fetched", "filtered", "done"}
        /\ out.exception = "none"
        /\ NothingComputed
        /\ pc = "done" =>
              /\ messages # <<>>
              /\ messages[Len(messages)] \in
                    {"No data could be retrieved from NASA POWER API.",
                     "No data available for the selected date range."}
        /\ (script = "No_Name") =>
              Count(messages, "No valid data could be processed") = 1

\* every record lacked a required parameter: the run ended with the messages
C7_Witness ==
    /\ NasaNormalized
    /\ Len(Items) = 2
    /\ \A i \in 1 .. 2 : Items[i][1] \in DateKeys /\ Incomplete(i)
    /\ pc = "done"
    /\ messages = <<"No valid data could be processed",
                    "No data could be retrieved from NASA POWER API.">>
    /\ NothingComputed

\* the observed average temperatures lie on one straight line over the offsets
Slope == RDiv(RSub(df[2].avg_temperature, df[1].avg_temperature),
              R(df[2].date - df[1].date))

Linear ==
    /\ Len(df) >= 2
    /\ \A i \in 1 .. Len(df) :
          df[i].avg_temperature =
              RAdd(df[1].avg_temperature, RMul(Slope, R(df[i].date - df[1].date)))

\* C9: for a series perfectly linear in the day-offset (avgTemp = a*offset + b
\* over at least two dates) the fit recovers slope a and intercept b, and the
\* value projected d days past the last date is a*(lastOffset + d) + b.
C9_LinearSeriesRecovered ==
    (Projected /\ Linear) =>
        /\ out.model.coef = Slope
        /\ out.model.intercept = df[1].avg_temperature
        /\ \A d \in 1 .. 30 :
              out.future[d].predicted_avg_temperature =
                  RAdd(RMul(Slope, R(LastOffset + d)), df[1].avg_temperature)

\* a = 2, b = 10 over three consecutive days: 10, 12, 14, then 16 ... 74
C9_Witness ==
    /\ Projected
    /\ Len(df) = 3
    /\ Column(df, "avg_temperature") = <<R(10), R(12), R(14)>>
    /\ LastOffset = 2
    /\ out.model = [coef |-> R(2), intercept |-> R(10)]
    /\ out.future[1].predicted_avg_temperature = R(16)
    /\ out.future[30].predicted_avg_temperature = R(74)

====
